---- MODULE Spec2Model ----
(***************************************************************************)
(* A model of translator.py: the subtitle reformatter, the sliding context *)
(* window and the batch translation driver, together with main's           *)
(* read / reformat / translate / write cycle over one subtitle file.       *)
(*                                                                         *)
(* Text is modelled as a sequence of tokens.  A token stands for one       *)
(* character, except that the translation markup strings and the <think>   *)
(* delimiters are one token each.  A cue is the record                     *)
(* [index, start, end, content] of srt.Subtitle.  List positions are       *)
(* 0-based in the code and kept 0-based in startIndex; the cue at code     *)
(* position i is subs[i + 1] here.                                         *)
(***************************************************************************)
EXTENDS Integers, Sequences, FiniteSets, TLC

----------------------------------------------------------------------------
(* Configuration constants.                                                *)

SUBTITLE_CONTEXT_COUNT == 15

TRANSLATION_BATCH_LENGTH == 4

TRANSLATION_PREFIX == "<span style=\"color: yellow;\"><i>"

TRANSLATION_SUFFIX == "</i></span>"

REEVALUATION_ENABLED == FALSE

----------------------------------------------------------------------------
(* Bounds of the model.                                                    *)

\* longest track given to one run of translateSRTFile on its own
MaxCues == 20

\* longest raw track in the subtitle file main starts from
MaxRawCues == 5

\* longest track of a run that is followed to its end
MaxFairCues == 9

\* longest raw track of mixed cue shapes given to the reformatter
MaxReformatCues == 3

\* longest track given to reevaluateTranslatedSRTFile
MaxReevalCues == 3

\* most corrections in one reply to the reevaluation request
MaxCorrections == 2

\* number of times main is started on the file
MaxRuns == 3

----------------------------------------------------------------------------
(* Text primitives.                                                        *)

NL == "\n"

SP == " "

THINK_OPEN == "<think>"

THINK_CLOSE == "</think>"

Whitespace == {SP, NL}

\* the last mark is the musical note sign
Punctuation == {".", "!", "?", "\"", "'", "note"}

SetMin(S) == CHOOSE x \in S : \A y \in S : x <= y

SetMax(S) == CHOOSE x \in S : \A y \in S : x >= y

\* str.strip()
Strip(text) ==
  LET keep == {i \in 1..Len(text) : text[i] \notin Whitespace}
  IN  IF keep = {} THEN <<>> ELSE SubSeq(text, SetMin(keep), SetMax(keep))

\* `needle in text` for a needle that is one token
Contains(text, needle) == \E i \in 1..Len(text) : text[i] = needle

\* str.split("\n"): the lines of a text, at least one
RECURSIVE Split(_)
Split(text) ==
  LET brk == {i \in 1..Len(text) : text[i] = NL}
  IN  IF brk = {} THEN <<text>>
      ELSE <<SubSeq(text, 1, SetMin(brk) - 1)>>
             \o Split(SubSeq(text, SetMin(brk) + 1, Len(text)))

\* re.sub(r'<think>(.|\n)*</think>', '', text): the greedy match runs from the
\* first <think> that has a </think> after it to the last </think>
RemoveThinkBlock(text) ==
  LET opens  == {i \in 1..Len(text) : text[i] = THINK_OPEN}
      closes == {j \in 1..Len(text) : text[j] = THINK_CLOSE}
      starts == {i \in opens : \E j \in closes : j > i}
  IN  IF starts = {} THEN text
      ELSE SubSeq(text, 1, SetMin(starts) - 1)
             \o SubSeq(text, SetMax(closes) + 1, Len(text))

remove_html_tags(text) == Strip(RemoveThinkBlock(text))

remove_thinking(text) == Strip(RemoveThinkBlock(text))

ends_with_punctuation(text) ==
  LET t == remove_html_tags(text)
  IN  Len(t) > 0 /\ t[Len(t)] \in Punctuation

starts_with_hyphen(text) ==
  LET t == remove_html_tags(text)
  IN  Len(t) > 0 /\ t[1] = "-"

----------------------------------------------------------------------------
(* Cues and the subtitle codec.                                            *)

\* srt.Subtitle(index, start, end, content)
Subtitle(index, start, end, content) ==
  [index |-> index, start |-> start, end |-> end, content |-> content]

\* the check of lines 422, 574 and 581: the cue carries translation markup
IsTranslated(sub) ==
  Contains(sub.content, TRANSLATION_PREFIX) \/ Contains(sub.content, TRANSLATION_SUFFIX)

\* srt.make_legal_content: no leading or trailing line break, no blank line
RECURSIVE CollapseBreaks(_)
CollapseBreaks(text) ==
  IF Len(text) < 2 THEN text
  ELSE IF text[1] = NL /\ text[2] = NL THEN CollapseBreaks(Tail(text))
  ELSE <<text[1]>> \o CollapseBreaks(Tail(text))

RECURSIVE StripBreaks(_)
StripBreaks(text) ==
  IF text = <<>> THEN text
  ELSE IF text[1] = NL THEN StripBreaks(Tail(text))
  ELSE IF text[Len(text)] = NL THEN StripBreaks(SubSeq(text, 1, Len(text) - 1))
  ELSE text

make_legal_content(content) ==
  IF /\ content # <<>>
     /\ content[1] # NL
     /\ ~\E i \in 1..(Len(content) - 1) : content[i] = NL /\ content[i + 1] = NL
  THEN content
  ELSE CollapseBreaks(StripBreaks(content))

\* srt.compose(subs) followed by srt.parse of the file written: cues with blank
\* content are skipped, the others are numbered from 1 and their content made
\* legal.  (compose also sorts by start time; every track composed here is
\* already in that order.)
RECURSIVE Reindex(_, _)
Reindex(s, next) ==
  IF s = <<>> THEN <<>>
  ELSE IF Strip(s[1].content) = <<>> THEN Reindex(Tail(s), next)
  ELSE <<Subtitle(next, s[1].start, s[1].end, make_legal_content(s[1].content))>>
         \o Reindex(Tail(s), next + 1)

Compose(s) == Reindex(s, 1)

----------------------------------------------------------------------------
(* reformatSRTFile.                                                        *)

\* list.index(x): the first position holding a value equal to x
IndexOf(s, x) == SetMin({j \in 1..Len(s) : s[j] = x})

\* the loop body with every line appended after a blank, hyphen or not
ReformatLine_NoBreak(st, raw_line) ==
  LET line   == Strip(raw_line)
      joined == /\ starts_with_hyphen(line)
                /\ Strip(st.prev_line) # <<>>
                /\ ~ends_with_punctuation(st.prev_line)
      line2  == IF joined THEN Strip(Tail(line)) ELSE line
  IN  [st EXCEPT !.line_builder = @ \o <<SP>> \o line2, !.prev_line = line2]

\* the loop body with the hyphen of a continued line left in place
ReformatLine_KeepsHyphen(st, raw_line) ==
  LET line == Strip(raw_line)
      joined == /\ starts_with_hyphen(line)
                /\ Strip(st.prev_line) # <<>>
                /\ ~ends_with_punctuation(st.prev_line)
      sep    == IF joined THEN SP
                ELSE IF starts_with_hyphen(line) THEN NL ELSE SP
  IN  [st EXCEPT !.line_builder = @ \o <<sep>> \o line, !.prev_line = line]

\* one pass of the loop over the display lines of a cue
ReformatLine(st, raw_line) ==
  LET line   == Strip(raw_line)
      joined == /\ starts_with_hyphen(line)
                /\ Strip(st.prev_line) # <<>>
                /\ ~ends_with_punctuation(st.prev_line)
      line2  == IF joined THEN Strip(Tail(line)) ELSE line
      sep    == IF joined THEN SP
                ELSE IF starts_with_hyphen(line) THEN NL ELSE SP
  IN  [st EXCEPT !.line_builder = @ \o <<sep>> \o line2, !.prev_line = line2]

RECURSIVE ReformatLines(_, _, _)
ReformatLines(st, lines, k) ==
  IF k > Len(lines) THEN st
  ELSE ReformatLines(ReformatLine(st, lines[k]), lines, k + 1)

\* the loop body with start_sub left where it was after a unit is emitted
ReformatCue_StartStays(st, s, i) ==
  LET sub == s[i]
      st1 == ReformatLines(st, Split(sub.content), 1)
  IN  IF ends_with_punctuation(st1.prev_line)
      THEN [formatted_subs   |-> Append(st1.formatted_subs,
                                   Subtitle(st1.formatted_sub_id, st1.start_sub.start,
                                            sub.end, Strip(st1.line_builder))),
            formatted_sub_id |-> st1.formatted_sub_id + 1,
            line_builder     |-> <<>>,
            prev_line        |-> <<>>,
            start_sub        |-> st1.start_sub]
      ELSE st1

\* one pass of the loop over the cues
ReformatCue(st, s, i) ==
  LET sub == s[i]
      st1 == ReformatLines(st, Split(sub.content), 1)
  IN  IF ends_with_punctuation(st1.prev_line)
      THEN [formatted_subs   |-> Append(st1.formatted_subs,
                                   Subtitle(st1.formatted_sub_id, st1.start_sub.start,
                                            sub.end, Strip(st1.line_builder))),
            formatted_sub_id |-> st1.formatted_sub_id + 1,
            line_builder     |-> <<>>,
            prev_line        |-> <<>>,
            start_sub        |-> IF sub = s[Len(s)] THEN s[Len(s)]
                                 ELSE s[IndexOf(s, sub) + 1]]
      ELSE st1

RECURSIVE ReformatCues(_, _, _)
ReformatCues(st, s, i) ==
  IF i > Len(s) THEN st ELSE ReformatCues(ReformatCue(st, s, i), s, i + 1)

\* defined for a non-empty track (subs[0] of an empty one raises)
reformatSRTFile(s) ==
  ReformatCues([formatted_subs   |-> <<>>,
                formatted_sub_id |-> 1,
                line_builder     |-> <<>>,
                prev_line        |-> <<>>,
                start_sub        |-> s[1]], s, 1).formatted_subs

----------------------------------------------------------------------------
(* The context window.                                                     *)

\* update_future_subs(index, subs), index 0-based: the loop over subs[index:]
RECURSIVE FutureLoop(_, _, _)
FutureLoop(s, j, acc) ==
  IF j > Len(s) THEN acc
  ELSE LET acc2 == Append(acc, Strip(s[j].content))
       IN  IF Len(acc2) >= SUBTITLE_CONTEXT_COUNT THEN acc2
           ELSE FutureLoop(s, j + 1, acc2)

\* the slice taken from one cue too far
update_future_subs_SkipsOne(index, s) == FutureLoop(s, index + 2, <<>>)

update_future_subs(index, s) == FutureLoop(s, index + 1, <<>>)

\* the append without the eviction of the oldest pairs
append_prev_NoEviction(prev, sub_and_translation) ==
  Append(prev, sub_and_translation)

\* append_prev_subs_and_translations: append, then pop(0) while too long
append_prev_subs_and_translations(prev, sub_and_translation) ==
  LET p == Append(prev, sub_and_translation)
  IN  IF Len(p) > SUBTITLE_CONTEXT_COUNT
      THEN SubSeq(p, Len(p) - SUBTITLE_CONTEXT_COUNT + 1, Len(p))
      ELSE p

----------------------------------------------------------------------------
(* State.                                                                  *)

VARIABLES
  disk,                        \* the subtitle file, as the cues srt.parse reads from it
  subs,                        \* the track in memory
  pc,                          \* where the process is
  startIndex,                  \* loop variable of translateSRTFile (0-based)
  prev_subs_and_translations,  \* global: pairs <<source, translation>>
  future_subs,                 \* global: upcoming source texts
  translations,                \* what translate_batch returned for the batch
  resp_json,                   \* what the reevaluation request came to
  runs,                        \* how many times main was started
  requests,                    \* history: the batches sent to the oracle in this run
  entrySubs,                   \* history: the track translateSRTFile was called with
  invalidSeen,                 \* history: a reply of this run was not n strings
  durable                      \* history: contents of the closed cues of every
                               \*          track that a completed write left on disk

vars == <<disk, subs, pc, startIndex, prev_subs_and_translations, future_subs,
          translations, resp_json, runs, requests, entrySubs, invalidSeen, durable>>

memory == <<subs, startIndex, prev_subs_and_translations, future_subs,
            translations, resp_json, requests, entrySubs, invalidSeen>>

NoValue == [kind |-> "none", elems |-> <<>>]

\* resp_json = None
NoResponse == [parsed |-> FALSE, status |-> FALSE, updatedTranslations |-> <<>>]

\* positions at which the process is not running
Halted == {"not_started", "exited", "interrupted", "crashed"}

ClosedContents(s) == {s[i].content : i \in {j \in 1..Len(s) : IsTranslated(s[j])}}

\* the slice taken one cue short
subs_batch_OneShort(s, start) ==
  LET stop == IF start + TRANSLATION_BATCH_LENGTH - 1 < Len(s)
              THEN start + TRANSLATION_BATCH_LENGTH - 1 ELSE Len(s)
  IN  [k \in 1..(IF stop > start THEN stop - start ELSE 0) |-> start + k]

\* subs[startIndex:startIndex+TRANSLATION_BATCH_LENGTH], as the positions in
\* subs of the cues of the slice (a slice holds the cues themselves, no copies)
subs_batch(s, start) ==
  LET stop == IF start + TRANSLATION_BATCH_LENGTH < Len(s)
              THEN start + TRANSLATION_BATCH_LENGTH ELSE Len(s)
  IN  [k \in 1..(IF stop > start THEN stop - start ELSE 0) |-> start + k]

----------------------------------------------------------------------------
(* The oracle, as translate_batch sees it.                                 *)

\* the text of the i-th string of a reply; the oracle pads with a blank
ReplyText(i) == <<"t" \o ToString(i), SP>>

StrElem(i) == [str |-> TRUE, text |-> ReplyText(i)]

NonStrElem == [str |-> FALSE, text |-> <<>>]

ListValue(elems) == [kind |-> "list", elems |-> elems]

\* a literal that cannot be iterated, such as a number
NumberValue == [kind |-> "number", elems |-> <<>>]

\* lengths of the lists the oracle answers with for a batch of n cues: none,
\* one, one too few, as many, one too many
ReplyLengths(n) == {0, 1, n - 1, n, n + 1}

\* what the oracle call and the parse of its answer can come to, for a batch
\* of n cues: an exception (no connection, no literal), a list of strings, a
\* list of n elements one of which is no string, or a literal that is no list
OracleOutcomes(n) ==
  {[raised |-> TRUE, value |-> NoValue]}
    \cup {[raised |-> FALSE, value |-> ListValue([i \in 1..k |-> StrElem(i)])] :
            k \in ReplyLengths(n)}
    \cup {[raised |-> FALSE,
           value |-> ListValue([i \in 1..n |-> IF i = j THEN NonStrElem ELSE StrElem(i)])] :
            j \in 1..n}
    \cup {[raised |-> FALSE, value |-> NumberValue]}

\* translate_batch: the parsed literal, or [] when anything raised
translate_batch(outcome) ==
  IF outcome.raised THEN ListValue(<<>>) ELSE outcome.value

\* the validation the design asks for, which the code does not perform: the
\* reply is a list of exactly n strings
IsValidReply(value, n) ==
  /\ value.kind = "list"
  /\ Len(value.elems) = n
  /\ \A i \in 1..n : value.elems[i].str

----------------------------------------------------------------------------
(* translateSRTFile.                                                       *)

\* the loop with the translation put in the place of the cue's text
RECURSIVE ZipLoop_Overwrites(_, _, _, _, _)
ZipLoop_Overwrites(s, prev, batch, elems, i) ==
  IF i > Len(elems) \/ i > Len(batch)
  THEN [subs |-> s, prev |-> prev, raised |-> FALSE]
  ELSE IF ~elems[i].str
  THEN [subs |-> s, prev |-> prev, raised |-> TRUE]
  ELSE LET sub == s[batch[i]]
           translated_content == Strip(elems[i].text)
       IN  ZipLoop_Overwrites(
                   [s EXCEPT ![batch[i]].content =
                       <<TRANSLATION_PREFIX>> \o translated_content
                         \o <<TRANSLATION_SUFFIX>>],
                   append_prev_subs_and_translations(
                       prev, <<remove_html_tags(sub.content), translated_content>>),
                   batch, elems, i + 1)

\* the loop over zip(subs_batch, translations): each pair strips the string,
\* appends the pair to the previous context and appends the wrapped
\* translation to the cue; an element that is no string has no strip() and
\* raises there, the pairs before it already applied
RECURSIVE ZipLoop(_, _, _, _, _)
ZipLoop(s, prev, batch, elems, i) ==
  IF i > Len(elems) \/ i > Len(batch)
  THEN [subs |-> s, prev |-> prev, raised |-> FALSE]
  ELSE IF ~elems[i].str
  THEN [subs |-> s, prev |-> prev, raised |-> TRUE]
  ELSE LET sub == s[batch[i]]
           translated_content == Strip(elems[i].text)
       IN  ZipLoop([s EXCEPT ![batch[i]].content =
                       @ \o <<NL, TRANSLATION_PREFIX>> \o translated_content
                         \o <<TRANSLATION_SUFFIX>>],
                   append_prev_subs_and_translations(
                       prev, <<remove_html_tags(sub.content), translated_content>>),
                   batch, elems, i + 1)

\* the call: reset_context() and the first value of the loop variable
EnterTranslate ==
  /\ pc = "translate"
  /\ prev_subs_and_translations' = <<>>
  /\ future_subs' = <<>>
  /\ startIndex' = 0
  /\ entrySubs' = subs
  /\ requests' = <<>>
  /\ invalidSeen' = FALSE
  /\ pc' = "loop"
  /\ UNCHANGED <<disk, subs, translations, resp_json, runs, durable>>

\* the range is exhausted: translateSRTFile returns subs
LoopExit ==
  /\ pc = "loop"
  /\ startIndex >= Len(subs)
  /\ pc' = "returned"
  /\ UNCHANGED <<disk, memory, runs, durable>>

\* the skip that does not move on to the next batch
SkipBatch_SameBatch ==
  /\ pc = "loop"
  /\ startIndex < Len(subs)
  /\ IsTranslated(subs[startIndex + 1])
  /\ UNCHANGED vars

\* `continue`: the first cue of the batch carries translation markup
SkipBatch ==
  /\ pc = "loop"
  /\ startIndex < Len(subs)
  /\ IsTranslated(subs[startIndex + 1])
  /\ startIndex' = startIndex + TRANSLATION_BATCH_LENGTH
  /\ UNCHANGED <<disk, subs, pc, prev_subs_and_translations, future_subs,
                 translations, resp_json, runs, requests, entrySubs, invalidSeen,
                 durable>>

\* the request without the check for a batch that is translated already
RequestBatch_NoSkipCheck ==
  /\ pc = "loop"
  /\ startIndex < Len(subs)
  /\ future_subs' = update_future_subs(startIndex + TRANSLATION_BATCH_LENGTH, subs)
  /\ requests' = Append(requests,
                        [start |-> startIndex,
                         size  |-> Len(subs_batch(subs, startIndex))])
  /\ pc' = "oracle"
  /\ UNCHANGED <<disk, subs, startIndex, prev_subs_and_translations,
                 translations, resp_json, runs, entrySubs, invalidSeen, durable>>

\* slice the batch, refresh the future context, send the prompt
RequestBatch ==
  /\ pc = "loop"
  /\ startIndex < Len(subs)
  /\ ~IsTranslated(subs[startIndex + 1])
  /\ future_subs' = update_future_subs(startIndex + TRANSLATION_BATCH_LENGTH, subs)
  /\ requests' = Append(requests,
                        [start |-> startIndex,
                         size  |-> Len(subs_batch(subs, startIndex))])
  /\ pc' = "oracle"
  /\ UNCHANGED <<disk, subs, startIndex, prev_subs_and_translations,
                 translations, resp_json, runs, entrySubs, invalidSeen, durable>>

\* the oracle call ends and translate_batch returns
OracleResponds ==
  /\ pc = "oracle"
  /\ \E outcome \in OracleOutcomes(Len(subs_batch(subs, startIndex))) :
       /\ translations' = translate_batch(outcome)
       /\ invalidSeen' = (invalidSeen \/
            ~IsValidReply(translations', Len(subs_batch(subs, startIndex))))
  /\ pc' = "zip"
  /\ UNCHANGED <<disk, subs, startIndex, prev_subs_and_translations, future_subs,
                 resp_json, runs, requests, entrySubs, durable>>

\* the loop over the pairs; zip() of a value that cannot be iterated raises
ZipBatch ==
  /\ pc = "zip"
  /\ IF translations.kind # "list"
     THEN /\ pc' = "crashed"
          /\ UNCHANGED <<subs, prev_subs_and_translations>>
     ELSE LET r == ZipLoop(subs, prev_subs_and_translations,
                           subs_batch(subs, startIndex), translations.elems, 1)
          IN  /\ subs' = r.subs
              /\ prev_subs_and_translations' = r.prev
              /\ pc' = IF r.raised THEN "crashed" ELSE "flush_open"
  /\ UNCHANGED <<disk, startIndex, future_subs, translations, resp_json, runs,
                 requests, entrySubs, invalidSeen, durable>>

\* open(filepath, 'w') truncates the file before srt.compose(subs) is evaluated
OpenFile(from, to) ==
  /\ pc = from
  /\ disk' = <<>>
  /\ pc' = to

\* new_file.write(srt.compose(subs)) and the close of the file
WriteFile(from, to) ==
  /\ pc = from
  /\ disk' = Compose(subs)
  /\ durable' = durable \cup ClosedContents(disk')
  /\ pc' = to

FlushOpen ==
  /\ OpenFile("flush_open", "flush_write")
  /\ UNCHANGED <<memory, runs, durable>>

\* the write of the checkpoint, then the next value of the loop variable
FlushWrite ==
  /\ WriteFile("flush_write", "loop")
  /\ startIndex' = startIndex + TRANSLATION_BATCH_LENGTH
  /\ UNCHANGED <<subs, prev_subs_and_translations, future_subs, translations,
                 resp_json, runs, requests, entrySubs, invalidSeen>>

\* the variables of a process other than its track, before it has run
NoMemory ==
  /\ startIndex = 0
  /\ prev_subs_and_translations = <<>>
  /\ future_subs = <<>>
  /\ translations = NoValue
  /\ resp_json = NoResponse
  /\ requests = <<>>
  /\ entrySubs = <<>>
  /\ invalidSeen = FALSE

\* KeyboardInterrupt, caught at the bottom of the script: the process ends and
\* its memory is gone
ForgetMemory ==
  /\ startIndex' = 0
  /\ prev_subs_and_translations' = <<>>
  /\ future_subs' = <<>>
  /\ translations' = NoValue
  /\ resp_json' = NoResponse
  /\ requests' = <<>>
  /\ entrySubs' = <<>>
  /\ invalidSeen' = FALSE

Interrupt ==
  /\ pc \notin Halted
  /\ pc' = "interrupted"
  /\ subs' = <<>>
  /\ ForgetMemory
  /\ UNCHANGED <<disk, runs, durable>>

----------------------------------------------------------------------------
(* main, for the one subtitle file of the directory.                       *)

\* a fresh process reads and parses the file
StartMain ==
  /\ pc \in Halted
  /\ runs < MaxRuns
  /\ runs' = runs + 1
  /\ subs' = disk
  /\ ForgetMemory
  /\ pc' = "gate_first"
  /\ UNCHANGED <<disk, durable>>

\* reformat unless the first cue carries translation markup; subs[0] of an
\* empty track raises
GateFirst ==
  /\ pc = "gate_first"
  /\ IF subs = <<>>
     THEN pc' = "crashed" /\ UNCHANGED subs
     ELSE IF ~IsTranslated(subs[1])
     THEN subs' = reformatSRTFile(subs) /\ pc' = "reformat_open"
     ELSE pc' = "gate_last" /\ UNCHANGED subs
  /\ UNCHANGED <<disk, startIndex, prev_subs_and_translations, future_subs,
                 translations, resp_json, runs, requests, entrySubs, invalidSeen,
                 durable>>

ReformatOpen ==
  /\ OpenFile("reformat_open", "reformat_write")
  /\ UNCHANGED <<memory, runs, durable>>

ReformatWrite ==
  /\ WriteFile("reformat_write", "gate_last")
  /\ UNCHANGED <<memory, runs>>

\* translate unless the last cue carries translation markup; subs[-1] of an
\* empty track raises
GateLast ==
  /\ pc = "gate_last"
  /\ pc' = IF subs = <<>> THEN "crashed"
           ELSE IF ~IsTranslated(subs[Len(subs)]) THEN "translate"
           ELSE "final_open"
  /\ UNCHANGED <<disk, memory, runs, durable>>

\* back in main after translateSRTFile; reevaluation is switched off
AfterTranslate ==
  /\ pc = "returned"
  /\ ~REEVALUATION_ENABLED
  /\ pc' = "final_open"
  /\ UNCHANGED <<disk, memory, runs, durable>>

FinalOpen ==
  /\ OpenFile("final_open", "final_write")
  /\ UNCHANGED <<memory, runs, durable>>

FinalWrite ==
  /\ WriteFile("final_write", "exited")
  /\ UNCHANGED <<memory, runs>>

----------------------------------------------------------------------------
(* reevaluateTranslatedSRTFile.                                            *)

BR == "<br>"

\* str.replace(old, new) for an old and a new of one token each
Replace(text, old, new) ==
  [k \in 1..Len(text) |-> IF text[k] = old THEN new ELSE text[k]]

\* re.sub of PREFIX.*?SUFFIX by PREFIX t SUFFIX with re.DOTALL: every match
\* from the left, each as short as can be
RECURSIVE SubTranslation(_, _)
SubTranslation(content, t) ==
  LET IsMatchStart(i) == /\ content[i] = TRANSLATION_PREFIX
                         /\ \E j \in (i + 1)..Len(content) :
                               content[j] = TRANSLATION_SUFFIX
      starts == {i \in 1..Len(content) : IsMatchStart(i)}
  IN  IF starts = {} THEN content
      ELSE LET i == SetMin(starts)
               j == SetMin({k \in (i + 1)..Len(content) :
                              content[k] = TRANSLATION_SUFFIX})
           IN  SubSeq(content, 1, i - 1)
                 \o <<TRANSLATION_PREFIX>> \o t \o <<TRANSLATION_SUFFIX>>
                 \o SubTranslation(SubSeq(content, j + 1, Len(content)), t)

\* list[k] for a 0-based k that may be negative: the position of the element,
\* or 0 where Python raises IndexError
PyPosition(s, k) ==
  IF k >= 0 /\ k < Len(s) THEN k + 1
  ELSE IF k < 0 /\ -k <= Len(s) THEN Len(s) + k + 1
  ELSE 0

\* the loop over resp_json.updatedTranslations: it ends when the list is
\* exhausted, at the first id that does not match, or in an IndexError
RECURSIVE PatchLoop(_, _, _)
PatchLoop(corrected_subs, updatedTranslations, k) ==
  IF k > Len(updatedTranslations)
  THEN [subs |-> corrected_subs, outcome |-> "done"]
  ELSE LET translation == updatedTranslations[k]
           pos         == PyPosition(corrected_subs, translation.id - 1)
       IN  IF pos = 0
           THEN [subs |-> corrected_subs, outcome |-> "raised"]
           ELSE IF corrected_subs[pos].index = translation.id
           THEN PatchLoop([corrected_subs EXCEPT
                             ![pos].content = SubTranslation(@, translation.t)],
                          updatedTranslations, k + 1)
           ELSE [subs |-> corrected_subs, outcome |-> "mismatch"]

\* the function with the patched copy returned whatever the loop came to
reevaluate_ReturnsPatched(s, resp) ==
  LET corrected_subs ==
        [i \in 1..Len(s) |-> [s[i] EXCEPT !.content = Replace(@, NL, BR)]]
      r == IF resp.parsed /\ resp.status
           THEN PatchLoop(corrected_subs, resp.updatedTranslations, 1)
           ELSE [subs |-> corrected_subs, outcome |-> "done"]
  IN  [i \in 1..Len(s) |-> [r.subs[i] EXCEPT !.content = Replace(@, BR, NL)]]

\* the function from the reply on: the patches go into a deep copy of subs
\* whose line breaks are written <br>; the copy is returned, line breaks
\* restored, when the loop ran to its end, and subs itself on a mismatch
\* (line 526) or an exception (line 535)
reevaluateTranslatedSRTFile(s, resp) ==
  LET corrected_subs ==
        [i \in 1..Len(s) |-> [s[i] EXCEPT !.content = Replace(@, NL, BR)]]
      r == IF resp.parsed /\ resp.status
           THEN PatchLoop(corrected_subs, resp.updatedTranslations, 1)
           ELSE [subs |-> corrected_subs, outcome |-> "done"]
  IN  IF r.outcome = "done"
      THEN [i \in 1..Len(s) |-> [r.subs[i] EXCEPT !.content = Replace(@, BR, NL)]]
      ELSE s

\* the text of the k-th correction of a reply
CorrectionText(k) == <<"r" \o ToString(k)>>

\* lists of up to MaxCorrections corrections for a track of n cues; the ids
\* run from below 1 to past the end of the track
UpdateLists(n) ==
  UNION {{[k \in 1..len |-> [id |-> ids[k], t |-> CorrectionText(k)]] :
            ids \in [1..len -> (-1)..(n + 1)]} : len \in 0..MaxCorrections}

\* what the three attempts of lines 480-510 can leave in resp_json: None when
\* every attempt raised, or the reply parsed, with either status
ReevaluationReplies(n) ==
  {NoResponse}
    \cup {[parsed |-> TRUE, status |-> st, updatedTranslations |-> u] :
            st \in BOOLEAN, u \in UpdateLists(n)}

\* the request is answered
ReevaluateRespond ==
  /\ pc = "reevaluate"
  /\ resp_json' \in ReevaluationReplies(Len(subs))
  /\ pc' = "patch"
  /\ UNCHANGED <<disk, subs, startIndex, prev_subs_and_translations, future_subs,
                 translations, runs, requests, entrySubs, invalidSeen, durable>>

\* the corrections are applied and the function returns to main
ReevaluatePatch ==
  /\ pc = "patch"
  /\ subs' = reevaluateTranslatedSRTFile(subs, resp_json)
  /\ pc' = "final_open"
  /\ UNCHANGED <<disk, startIndex, prev_subs_and_translations, future_subs,
                 translations, resp_json, runs, requests, entrySubs, invalidSeen,
                 durable>>

----------------------------------------------------------------------------
(* Tracks the model starts from.                                           *)

Word(i) == "w" \o ToString(i)

\* a raw track of n cues, cue i shown from time i - 1 to time i; the cues in
\* `cut` are cut off before the end of their sentence, the others end it
RawTrack(n, cut) ==
  [i \in 1..n |->
     Subtitle(i, i - 1, i, IF i \in cut THEN <<Word(i)>> ELSE <<Word(i), ".">>)]

RawTracks ==
  UNION {{RawTrack(n, cut) : cut \in SUBSET (1..n)} : n \in 1..MaxRawCues}

\* the translation an earlier run left in the cue at position i
EarlierTranslation(i) ==
  <<NL, TRANSLATION_PREFIX>>
    \o Strip(ReplyText(((i - 1) % TRANSLATION_BATCH_LENGTH) + 1))
    \o <<TRANSLATION_SUFFIX>>

\* a reformatted track of n cues of which the first m are closed
ResumedTrack(n, m) ==
  [i \in 1..n |->
     Subtitle(i, i - 1, i,
              <<Word(i), ".">> \o (IF i <= m THEN EarlierTranslation(i) ELSE <<>>))]

ResumedTracks ==
  UNION {{ResumedTrack(n, m) : m \in 0..n} : n \in 1..MaxCues}

\* the word on the second display line of raw cue i
Word2(i) == "v" \o ToString(i)

\* the shapes of a raw cue's text: a sentence, a line cut off before the end
\* of its sentence, either of them after a hyphen, two display lines of one
\* sentence, two hyphenated utterances, and a hyphenated line that continues
\* the line above it
CueTexts(i) ==
  { <<Word(i), ".">>,
    <<Word(i)>>,
    <<"-", SP, Word(i)>>,
    <<"-", SP, Word(i), ".">>,
    <<Word(i), NL, Word2(i), ".">>,
    <<"-", SP, Word(i), ".", NL, "-", SP, Word2(i), ".">>,
    <<Word(i), NL, "-", SP, Word2(i), ".">> }

\* the raw tracks of n cues of these shapes, cue i shown from time i - 1 to i
MixedTracks(n) ==
  {[i \in 1..n |-> Subtitle(i, i - 1, i, text[i])] :
     text \in {t \in [1..n -> UNION {CueTexts(i) : i \in 1..n}] :
                 \A i \in 1..n : t[i] \in CueTexts(i)}}

ReformatInputs == UNION {MixedTracks(n) : n \in 1..MaxReformatCues}

\* the tracks main has when it is past the translate-or-skip branch
ReevaluationInputs ==
  UNION {{ResumedTrack(n, m) : m \in 0..n} : n \in 1..MaxReevalCues}

----------------------------------------------------------------------------
(* Specifications.                                                         *)

\* main, started again and again on the file a raw track was put in
Init ==
  /\ disk \in RawTracks
  /\ subs = <<>>
  /\ pc = "not_started"
  /\ NoMemory
  /\ runs = 0
  /\ durable = {}

Next ==
  \/ StartMain
  \/ GateFirst
  \/ ReformatOpen
  \/ ReformatWrite
  \/ GateLast
  \/ EnterTranslate
  \/ LoopExit
  \/ SkipBatch
  \/ RequestBatch
  \/ OracleResponds
  \/ ZipBatch
  \/ FlushOpen
  \/ FlushWrite
  \/ AfterTranslate
  \/ FinalOpen
  \/ FinalWrite
  \/ Interrupt

Spec == Init /\ [][Next]_vars

\* one call of translateSRTFile(subs, filepath) on a track whose first cues are
\* closed, the file holding that track
DriverInit ==
  /\ subs \in ResumedTracks
  /\ disk = subs
  /\ pc = "translate"
  /\ NoMemory
  /\ runs = 1
  /\ durable = ClosedContents(subs)

DriverNext ==
  \/ EnterTranslate
  \/ LoopExit
  \/ SkipBatch
  \/ RequestBatch
  \/ OracleResponds
  \/ ZipBatch
  \/ FlushOpen
  \/ FlushWrite
  \/ Interrupt

DriverSpec == DriverInit /\ [][DriverNext]_vars

\* the steps the process takes on its own: the interpreter runs on and the
\* blocking oracle call comes back, with a reply or an exception
DriverStep ==
  \/ EnterTranslate
  \/ LoopExit
  \/ SkipBatch
  \/ RequestBatch
  \/ OracleResponds
  \/ ZipBatch
  \/ FlushOpen
  \/ FlushWrite

\* the same call on the shorter tracks
DriverFairInit ==
  /\ DriverInit
  /\ Len(subs) <= MaxFairCues

\* the call with the process never left standing while it can take a step
DriverFairSpec == DriverFairInit /\ [][DriverNext]_vars /\ WF_vars(DriverStep)

\* main on a raw file, up to the write of the reformatted track
ReformatInit ==
  /\ disk \in ReformatInputs
  /\ subs = <<>>
  /\ pc = "not_started"
  /\ NoMemory
  /\ runs = 0
  /\ durable = {}

ReformatNext ==
  \/ StartMain
  \/ GateFirst
  \/ ReformatOpen
  \/ ReformatWrite

ReformatSpec == ReformatInit /\ [][ReformatNext]_vars

\* subs = reevaluateTranslatedSRTFile(copy.deepcopy(subs)) and the last write
\* of main, as they run when REEVALUATION_ENABLED is set
ReevaluationInit ==
  /\ subs \in ReevaluationInputs
  /\ disk = subs
  /\ pc = "reevaluate"
  /\ NoMemory
  /\ runs = 1
  /\ durable = ClosedContents(subs)

ReevaluationNext ==
  \/ ReevaluateRespond
  \/ ReevaluatePatch
  \/ FinalOpen
  \/ FinalWrite

ReevaluationSpec == ReevaluationInit /\ [][ReevaluationNext]_vars

----------------------------------------------------------------------------
(* Notions the properties are stated in.                                   *)

\* number of cues sent with the batch now being handled
BatchSize == Len(subs_batch(subs, startIndex))

\* the number of closed cues a track starts with
LeadingClosed(s) ==
  LET open == {i \in 1..Len(s) : ~IsTranslated(s[i])}
  IN  IF open = {} THEN Len(s) ELSE SetMin(open) - 1

\* the first cues of the track are closed and all the others are open
ClosedThenOpen(s) ==
  LET m == LeadingClosed(s)
  IN  \A i \in 1..Len(s) : i > m => ~IsTranslated(s[i])

AllOpen(s) == \A i \in 1..Len(s) : ~IsTranslated(s[i])

AllClosed(s) == \A i \in 1..Len(s) : IsTranslated(s[i])

\* how many translations a cue carries
Translations(sub) ==
  Cardinality({i \in 1..Len(sub.content) : sub.content[i] = TRANSLATION_PREFIX})

\* positions of the batch of a request
RequestPositions(r) == {i \in 1..(r.start + r.size) : i > r.start}

\* the text is still somewhere in the track
IsInfix(text, content) ==
  \E k \in 0..(Len(content) - Len(text)) :
     SubSeq(content, k + 1, k + Len(text)) = text

StillOnDisk(text) == \E i \in 1..Len(disk) : IsInfix(text, disk[i].content)

Ceil(n, b) == (n + b - 1) \div b

\* the driver has finished handling the k-th batch it requested in this run
Handled(k) ==
  /\ k \in 1..Len(requests)
  /\ k < Len(requests) \/ pc \notin {"oracle", "zip", "flush_open", "flush_write"}

----------------------------------------------------------------------------
(* C1.  A reply that is not a sequence of exactly n strings, n the size of *)
(* the batch, is never written into the track: the step that handles it    *)
(* leaves every cue as it was and requests the same batch again.           *)

C1_InvalidReplyRejected ==
  [][(pc = "zip" /\ ~IsValidReply(translations, BatchSize) /\ pc' # "interrupted")
       => (subs' = subs /\ pc' = "oracle" /\ startIndex' = startIndex)]_vars

----------------------------------------------------------------------------
(* C2.  In a run on a track whose first M cues are closed and whose other  *)
(* cues are open, no batch sent to the oracle contains any of the cues     *)
(* 1..M, no cue ever carries a second translation, the cues 1..M keep the  *)
(* text they came with, and no step changes the text of a closed cue.      *)

C2_State ==
  (subs # <<>> /\ entrySubs # <<>> /\ ClosedThenOpen(entrySubs)) =>
     LET M == LeadingClosed(entrySubs)
     IN  /\ \A k \in 1..Len(requests) :
               \A i \in RequestPositions(requests[k]) : i > M
         /\ \A i \in 1..M : subs[i] = entrySubs[i]
         /\ \A i \in 1..Len(subs) : Translations(subs[i]) <= 1

C2_Step ==
  \/ subs' = subs
  \/ (Len(subs') = Len(subs)) =>
        \A i \in 1..Len(subs) : IsTranslated(subs[i]) => subs'[i] = subs[i]

\* C2: closed cues are never sent again and their text never changes
C2_ClosedCuesNeverRetranslated == [](C2_State) /\ [][C2_Step]_vars

\* a run that was entered with some cues closed has sent a batch and closed it
C2_Witness ==
  /\ pc = "flush_write"
  /\ LeadingClosed(entrySubs) \in 1..(Len(entrySubs) - 1)
  /\ IsValidReply(translations, BatchSize)
  /\ Len(requests) = 1

----------------------------------------------------------------------------
(* C3.  A run on a track whose first M cues are closed and whose cues      *)
(* M+1..N are open, M < N, sends its first request for the batch that      *)
(* starts at cue M+1, and does not return without having sent one.         *)

C3_ResumesAtFirstOpenCue ==
  LET M == LeadingClosed(entrySubs)
  IN  (entrySubs # <<>> /\ ClosedThenOpen(entrySubs) /\ M < Len(entrySubs)) =>
         /\ Len(requests) >= 1 => requests[1].start = M
         /\ pc = "returned" => Len(requests) >= 1

----------------------------------------------------------------------------
(* C4.  Once the driver has finished handling a batch (it has moved on to  *)
(* the next batch, returned or failed), either every cue of the batch is   *)
(* closed or none is: in the file, and in the track in memory as long as   *)
(* the run goes on.                                                        *)

AllOrNone(s, positions) ==
  \/ \A i \in positions : i <= Len(s) /\ IsTranslated(s[i])
  \/ \A i \in positions : i <= Len(s) /\ ~IsTranslated(s[i])

\* C4: a handled batch is closed as a whole or not at all
C4_BatchAtomicity ==
  \A k \in 1..Len(requests) :
    Handled(k) =>
      /\ pc \in {"loop", "oracle", "zip", "returned", "crashed"} =>
           AllOrNone(disk, RequestPositions(requests[k]))
      /\ pc # "crashed" => AllOrNone(subs, RequestPositions(requests[k]))

----------------------------------------------------------------------------
(* C5.  After a batch whose reply failed validation no request is sent for *)
(* a later batch of the file, and what was flushed before stays on disk.   *)

C5_FailedBatchStopsFile ==
  /\ pc = "oracle" => ~invalidSeen
  /\ pc \in {"loop", "oracle", "zip", "flush_open", "returned", "crashed"} =>
       \A c \in durable : StillOnDisk(c)

----------------------------------------------------------------------------
(* C6.  When a request is sent, the file holds the whole track as it is in *)
(* memory, the cues closed by the batches before it included; and after an *)
(* interrupt the file holds every cue that a completed write had put there.*)

C6_CheckpointBeforeNextRequest ==
  /\ pc = "oracle" => disk = Compose(subs)
  /\ pc = "interrupted" => \A c \in durable : StillOnDisk(c)

----------------------------------------------------------------------------
(* C7.  Whenever the process is not running, the file holds every closed   *)
(* cue that a completed write ever put there, source text and translation. *)

C7_DurableProgressMonotonic ==
  pc \in Halted => \A c \in durable : StillOnDisk(c)

----------------------------------------------------------------------------
(* C8.  Once main is past the translate-or-skip branch, every cue of the   *)
(* track is closed.                                                        *)

C8_TranslatedPastTheBranch ==
  pc \in {"final_open", "final_write", "exited"} => AllClosed(subs)

----------------------------------------------------------------------------
(* C9.  In a run on a track of N >= 1 open cues the k-th request is for    *)
(* the TRANSLATION_BATCH_LENGTH cues that follow those of the requests     *)
(* before it, or for all the cues that are left when they are fewer; when  *)
(* the run returns it has sent ceil(N / TRANSLATION_BATCH_LENGTH) requests *)
(* and their batches, pairwise disjoint, make up the whole track.          *)

C9_BatchCoverage ==
  (entrySubs # <<>> /\ AllOpen(entrySubs)) =>
    LET N == Len(entrySubs)
        B == TRANSLATION_BATCH_LENGTH
        last == Ceil(N, B)
    IN  /\ Len(requests) <= last
        /\ \A k \in 1..Len(requests) :
              /\ requests[k].start = (k - 1) * B
              /\ requests[k].size = IF k < last THEN B ELSE N - B * (last - 1)
        /\ \A k, l \in 1..Len(requests) :
              k # l => RequestPositions(requests[k]) \cap RequestPositions(requests[l]) = {}
        /\ pc = "returned" =>
              /\ Len(requests) = last
              /\ UNION {RequestPositions(requests[k]) : k \in 1..Len(requests)} = 1..N

\* a run on open cues has returned after a last batch shorter than the others
C9_Witness ==
  /\ pc = "returned"
  /\ entrySubs # <<>>
  /\ AllOpen(entrySubs)
  /\ Len(requests) >= 3
  /\ requests[Len(requests)].size < TRANSLATION_BATCH_LENGTH

----------------------------------------------------------------------------
(* C10.  At every request the previous context and the future context have *)
(* at most SUBTITLE_CONTEXT_COUNT entries each, and every pair of the      *)
(* previous context is the source text and the translation of a closed cue *)
(* that lies before the first cue of the batch.                            *)

\* the cue is closed and is the source of the pair followed by its translation
IsPairOf(pair, sub) ==
  LET tail == <<NL, TRANSLATION_PREFIX>> \o pair[2] \o <<TRANSLATION_SUFFIX>>
      c    == sub.content
  IN  /\ IsTranslated(sub)
      /\ Len(c) > Len(tail)
      /\ SubSeq(c, Len(c) - Len(tail) + 1, Len(c)) = tail
      /\ remove_html_tags(SubSeq(c, 1, Len(c) - Len(tail))) = pair[1]

\* C10: both contexts are bounded and the previous one holds closed cues only
C10_ContextBound ==
  pc = "oracle" =>
    /\ Len(prev_subs_and_translations) <= SUBTITLE_CONTEXT_COUNT
    /\ Len(future_subs) <= SUBTITLE_CONTEXT_COUNT
    /\ \A e \in 1..Len(prev_subs_and_translations) :
          \E j \in 1..startIndex : IsPairOf(prev_subs_and_translations[e], subs[j])

\* a request goes out with a full previous context, older pairs evicted
C10_Witness ==
  /\ pc = "oracle"
  /\ Len(prev_subs_and_translations) = SUBTITLE_CONTEXT_COUNT
  /\ Cardinality({j \in 1..startIndex : IsTranslated(subs[j])}) > SUBTITLE_CONTEXT_COUNT

----------------------------------------------------------------------------
(* C11.  At every request, in a fresh run and in a resumed run alike, the  *)
(* previous context is the last min(SUBTITLE_CONTEXT_COUNT, c) closed cues *)
(* of the track before the first cue of the batch, c their number, as      *)
(* pairs of source text and translation, oldest first.                     *)

\* the pair a closed cue stands for: the text before the line break and the
\* markup, and the text between the markup
PairOf(sub) ==
  LET c == sub.content
      p == SetMin({i \in 1..Len(c) : c[i] = TRANSLATION_PREFIX})
      q == SetMax({i \in 1..Len(c) : c[i] = TRANSLATION_SUFFIX})
  IN  <<Strip(SubSeq(c, 1, p - 1)), SubSeq(c, p + 1, q - 1)>>

\* positions of the closed cues among the first n cues, in track order
ClosedBefore(s, n) ==
  LET IsClosedAt(j) == IsTranslated(s[j])
  IN  SelectSeq([j \in 1..n |-> j], IsClosedAt)

\* the previous context the design derives from the track for a batch that
\* starts after the first n cues
PreviousOf(s, n) ==
  LET closed == ClosedBefore(s, n)
      c      == Len(closed)
      m      == IF c < SUBTITLE_CONTEXT_COUNT THEN c ELSE SUBTITLE_CONTEXT_COUNT
  IN  [e \in 1..m |-> PairOf(s[closed[c - m + e]])]

\* C11: the previous context is the window of closed cues before the batch
C11_PreviousContextFromTrack ==
  pc = "oracle" => prev_subs_and_translations = PreviousOf(subs, startIndex)

----------------------------------------------------------------------------
(* C12.  At every request the future context is the source texts of the    *)
(* cues that follow the batch, in track order, up to                       *)
(* SUBTITLE_CONTEXT_COUNT of them or to the end of the track: it holds no  *)
(* cue of the batch, skips no cue after it, and is empty exactly when the  *)
(* batch reaches the end of the track.                                     *)

----------------------------------------------------------------------------
(* C13.  Over any sequence of runs of main on a file, reformatSRTFile is   *)
(* only ever called on a track in which no cue carries translation markup. *)

C13_ReformatOnlyOpenTracks ==
  [][(pc = "gate_first" /\ pc' = "reformat_open") => AllOpen(subs)]_vars

----------------------------------------------------------------------------
(* Notions the properties of the reformatter are stated in.  At the        *)
(* position "reformat_open" the file still holds the raw track and subs is *)
(* what reformatSRTFile returned for it.                                   *)

Reformatted == pc = "reformat_open"

\* the texts of the cues of a track, one after the other
RECURSIVE Flatten(_)
Flatten(s) == IF s = <<>> THEN <<>> ELSE s[1].content \o Flatten(Tail(s))

\* the characters of a text that are not blanks or line breaks
Visible(text) ==
  LET IsVisible(c) == c \notin Whitespace
  IN  SelectSeq(text, IsVisible)

\* the characters of a text other than blanks, line breaks and hyphens
Letters(text) ==
  LET IsLetter(c) == c \notin Whitespace \cup {"-"}
  IN  SelectSeq(text, IsLetter)

\* the elements of a appear in b, in the order of a
RECURSIVE IsSubsequence(_, _)
IsSubsequence(a, b) ==
  IF a = <<>> THEN TRUE
  ELSE IF b = <<>> THEN FALSE
  ELSE IF a[1] = b[1] THEN IsSubsequence(Tail(a), Tail(b))
  ELSE IsSubsequence(a, Tail(b))

\* the last display line of the cue ends in sentence-final punctuation
EndsSentence(sub) ==
  LET lines == Split(sub.content)
      last  == lines[Len(lines)]
  IN  last # <<>> /\ last[Len(last)] \in Punctuation

\* positions of the raw cues that end a sentence, in track order
Closers(s) ==
  LET IsCloser(j) == EndsSentence(s[j])
  IN  SelectSeq([j \in 1..Len(s) |-> j], IsCloser)

\* the raw cue at which the unit holding raw cue i begins
UnitStart(s, i) ==
  LET before == {j \in 1..(i - 1) : EndsSentence(s[j])}
  IN  IF before = {} THEN 1 ELSE SetMax(before) + 1

\* the texts of the cues of a track
Texts(s) == [i \in 1..Len(s) |-> s[i].content]

----------------------------------------------------------------------------
(* C14.  Every character of every raw cue's text, blanks and line breaks   *)
(* aside, appears in the original order in the concatenation of the texts  *)
(* of the cues reformatSRTFile returns.                                    *)

C14_ReformatCoverage ==
  Reformatted => IsSubsequence(Visible(Flatten(disk)), Flatten(subs))

----------------------------------------------------------------------------
(* C15.  If the last raw cue does not end in sentence-final punctuation,   *)
(* reformatSRTFile still emits the text accumulated at the end of the      *)
(* track as its last cue, from the start of the raw cue where that unit    *)
(* began to the end of the last raw cue.                                   *)

C15_EndOfTrackFlush ==
  (Reformatted /\ ~EndsSentence(disk[Len(disk)])) =>
     LET u == UnitStart(disk, Len(disk))
     IN  /\ subs # <<>>
         /\ subs[Len(subs)].start = disk[u].start
         /\ subs[Len(subs)].end = disk[Len(disk)].end
         /\ IsSubsequence(Letters(Flatten(SubSeq(disk, u, Len(disk)))),
                          subs[Len(subs)].content)

----------------------------------------------------------------------------
(* C16.  For a track in which every cue's text ends in sentence-final      *)
(* punctuation and has no stray hyphenation, cues of two display lines     *)
(* included, reformatSRTFile returns as many cues, in the same order, each *)
(* with the text of the input cue; and reformatting the result again gives *)
(* the same texts.                                                         *)

\* the display line starts with a hyphen
HyphenLine(line) == line # <<>> /\ line[1] = "-"

\* no hyphenated display line of the cue continues the line above it
NoStrayHyphen(sub) ==
  LET lines == Split(sub.content)
  IN  \A k \in 2..Len(lines) :
         HyphenLine(lines[k]) =>
            (lines[k - 1] # <<>> /\ lines[k - 1][Len(lines[k - 1])] \in Punctuation)

SentenceTrack(s) == \A i \in 1..Len(s) : EndsSentence(s[i]) /\ NoStrayHyphen(s[i])

\* no display line of the track is empty or has blanks around it
CleanLines(s) ==
  \A i \in 1..Len(s) :
     LET lines == Split(s[i].content)
     IN  \A k \in 1..Len(lines) : lines[k] # <<>> /\ Strip(lines[k]) = lines[k]

\* every display line of the cue after the first starts with a hyphen
HyphenLinesOnly(sub) ==
  LET lines == Split(sub.content)
  IN  \A k \in 2..Len(lines) : HyphenLine(lines[k])

\* the text with each line break that is not followed by a hyphen turned
\* into a blank
JoinPlain(text) ==
  [k \in 1..Len(text) |->
     IF text[k] = NL /\ (k = Len(text) \/ text[k + 1] # "-") THEN SP ELSE text[k]]

\* C16 as stated: the texts come back identical
C16_ReformatIdempotence ==
  (Reformatted /\ SentenceTrack(disk)) =>
     /\ Len(subs) = Len(disk)
     /\ Texts(subs) = Texts(disk)
     /\ subs # <<>> => Texts(reformatSRTFile(subs)) = Texts(subs)

\* C16 as amended, for such a track without empty display lines or blanks
\* around a display line: the cues come back one for one, a display line
\* that does not start with a hyphen joined to the line above it by a blank;
\* the text is identical when every display line after the first starts with
\* a hyphen; and reformatting the result again gives the same texts
C16_ReformatKeepsSentenceCues ==
  (Reformatted /\ SentenceTrack(disk) /\ CleanLines(disk)) =>
     /\ Len(subs) = Len(disk)
     /\ \A i \in 1..Len(disk) :
           /\ i <= Len(subs) => subs[i].content = JoinPlain(disk[i].content)
           /\ (i <= Len(subs) /\ HyphenLinesOnly(disk[i])) =>
                 subs[i].content = disk[i].content
     /\ subs # <<>> => Texts(reformatSRTFile(subs)) = Texts(subs)

\* a track of sentence cues was reformatted, one cue of which has two plain
\* display lines and another two hyphenated ones
C16_Witness ==
  /\ Reformatted
  /\ SentenceTrack(disk)
  /\ \E i, j \in 1..Len(disk) :
        /\ Len(Split(disk[i].content)) = 2 /\ ~HyphenLinesOnly(disk[i])
        /\ Len(Split(disk[j].content)) = 2 /\ HyphenLinesOnly(disk[j])

----------------------------------------------------------------------------
(* C17.  Two consecutive raw cues "- X", X not ending in sentence-final    *)
(* punctuation, and "- Y." that begin a unit come out as exactly one cue,  *)
(* from the start of the first to the end of the second, with the text     *)
(* "X Y.".                                                                 *)

\* the cue is one display line that starts with a hyphen
OneHyphenLine(sub) == Len(Split(sub.content)) = 1 /\ HyphenLine(sub.content)

\* raw cue i is "- X" and begins a unit, raw cue i + 1 is "- Y."
HyphenPairAt(s, i) ==
  /\ i + 1 <= Len(s)
  /\ UnitStart(s, i) = i
  /\ OneHyphenLine(s[i]) /\ ~EndsSentence(s[i])
  /\ OneHyphenLine(s[i + 1]) /\ EndsSentence(s[i + 1])

\* the cues emitted for the raw cues i and i + 1
EmittedFor(i) ==
  {k \in 1..Len(subs) : subs[k].start >= disk[i].start /\ subs[k].end <= disk[i + 1].end}

\* one cue over both raw cues with the given text
OneCueWithText(i, text) ==
  /\ Cardinality(EmittedFor(i)) = 1
  /\ \A k \in EmittedFor(i) :
        /\ subs[k].start = disk[i].start
        /\ subs[k].end = disk[i + 1].end
        /\ subs[k].content = text

\* C17 as stated: both hyphens are dropped
C17_HyphenPairJoined ==
  Reformatted =>
    \A i \in 1..Len(disk) :
       HyphenPairAt(disk, i) =>
          OneCueWithText(i, Strip(Tail(disk[i].content)) \o <<SP>>
                              \o Strip(Tail(disk[i + 1].content)))

\* C17 as amended: the hyphen of the first cue stays, the text is "- X Y."
C17_HyphenPairKeepsFirstHyphen ==
  Reformatted =>
    \A i \in 1..Len(disk) :
       HyphenPairAt(disk, i) =>
          OneCueWithText(i, <<"-", SP>> \o Strip(Tail(disk[i].content)) \o <<SP>>
                              \o Strip(Tail(disk[i + 1].content)))

\* the raw track "- X", "- Y." was reformatted
C17_Witness ==
  /\ Reformatted
  /\ Len(disk) = 2
  /\ HyphenPairAt(disk, 1)
  /\ Len(subs) = 1

----------------------------------------------------------------------------
(* C19.  The k-th cue reformatSRTFile emits has id k, starts where the raw *)
(* cue after the one that ended unit k - 1 starts (the first raw cue for   *)
(* k = 1) and ends where the raw cue that ended unit k ends; there is one  *)
(* cue per raw cue that ends a sentence.                                   *)

C19_UnitTimes ==
  Reformatted =>
    LET closers == Closers(disk)
    IN  /\ Len(subs) = Len(closers)
        /\ \A k \in 1..Len(subs) :
              /\ subs[k].index = k
              /\ k <= Len(closers) =>
                    /\ subs[k].end = disk[closers[k]].end
                    /\ subs[k].start =
                         disk[IF k = 1 THEN 1 ELSE closers[k - 1] + 1].start

\* two units were emitted, the second made of more than one raw cue
C19_Witness ==
  /\ Reformatted
  /\ Len(subs) >= 2
  /\ subs[2].end - subs[2].start >= 2

----------------------------------------------------------------------------
(* C18.  If any correction of the reply names an id that is not the id of  *)
(* the cue at that position (0, a negative id and an id past the end of    *)
(* the track included), reevaluateTranslatedSRTFile returns the track it   *)
(* was given, every cue unchanged, also when corrections before that one   *)
(* matched.                                                                *)

\* the id of the correction is the id of the cue at position id
Matches(s, translation) ==
  /\ translation.id \in 1..Len(s)
  /\ s[translation.id].index = translation.id

HasMismatch(s, resp) ==
  /\ resp.parsed
  /\ \E k \in 1..Len(resp.updatedTranslations) :
        ~Matches(s, resp.updatedTranslations[k])

\* C18: a reply with a mismatch leaves the track as it was
C18_ReevaluationAllOrNothing ==
  [][(pc = "patch" /\ HasMismatch(subs, resp_json)) => subs' = subs]_vars

\* a reply whose first correction matched a closed cue and whose second did
\* not has been handled, and the track is the one on file
C18_Witness ==
  /\ pc = "final_open"
  /\ resp_json.parsed /\ resp_json.status
  /\ Len(resp_json.updatedTranslations) = 2
  /\ Matches(disk, resp_json.updatedTranslations[1])
  /\ IsTranslated(disk[resp_json.updatedTranslations[1].id])
  /\ ~Matches(disk, resp_json.updatedTranslations[2])
  /\ subs = disk

----------------------------------------------------------------------------
(* C20.  Handling the batch at startIndex changes nothing but the text of  *)
(* cues of that batch, and that only by appending a line break and the     *)
(* wrapped translation to the text there was: the number of cues, their    *)
(* order, ids and times, and the text of every cue outside the batch stay, *)
(* and the k-th string of the reply goes to the k-th cue of the batch.     *)

\* the cue at position i got the k-th string of the reply appended
Appended(i, k) ==
  /\ pc = "zip"
  /\ translations.kind = "list"
  /\ k <= Len(translations.elems)
  /\ translations.elems[k].str
  /\ subs'[i].content =
       subs[i].content \o <<NL, TRANSLATION_PREFIX>>
         \o Strip(translations.elems[k].text) \o <<TRANSLATION_SUFFIX>>

InBatch(i) == i > startIndex /\ i <= startIndex + TRANSLATION_BATCH_LENGTH

\* what a step may do to the track while the batch at startIndex is handled
BatchFrame ==
  /\ Len(subs') = Len(subs)
  /\ \A i \in 1..Len(subs) :
        /\ subs'[i].index = subs[i].index
        /\ subs'[i].start = subs[i].start
        /\ subs'[i].end = subs[i].end
        /\ ~InBatch(i) => subs'[i] = subs[i]
        /\ InBatch(i) =>
              \/ subs'[i].content = subs[i].content
              \/ Appended(i, i - startIndex)
        /\ (InBatch(i) /\ pc = "zip" /\ IsValidReply(translations, BatchSize)) =>
              Appended(i, i - startIndex)

\* a step leaves the track alone, no valid reply being there to apply, or
\* it keeps to the frame
C20_Step ==
  (pc \in {"loop", "oracle", "zip", "flush_open", "flush_write"}
     /\ pc' # "interrupted") =>
     \/ subs' = subs /\ ~(pc = "zip" /\ IsValidReply(translations, BatchSize))
     \/ BatchFrame

\* C20: a batch step appends the k-th translation to the k-th cue of the
\* batch and changes nothing else of the track
C20_BatchStepFrame == [][C20_Step]_vars

\* the second batch of a run, a full one, has been given a valid reply
C20_Witness ==
  /\ pc = "flush_open"
  /\ startIndex >= TRANSLATION_BATCH_LENGTH
  /\ BatchSize = TRANSLATION_BATCH_LENGTH
  /\ Len(subs) > startIndex + TRANSLATION_BATCH_LENGTH
  /\ IsValidReply(translations, BatchSize)
  /\ \A i \in 1..Len(subs) : InBatch(i) => IsTranslated(subs[i])

----------------------------------------------------------------------------
(* C21.  Whatever the oracle does at each call (a valid reply, a malformed *)
(* one, one of the wrong length, an exception), one run of                 *)
(* translateSRTFile on a track of N cues ends, and it sends at most one    *)
(* request per batch, never one for a batch it has sent before: at most    *)
(* ceil(N / TRANSLATION_BATCH_LENGTH) requests in all.                     *)

\* the call has returned, or ended in an exception or an interrupt
RunEnded == pc \in {"returned", "crashed", "interrupted"}

RequestsBounded ==
  /\ Len(requests) <= Ceil(Len(entrySubs), TRANSLATION_BATCH_LENGTH)
  /\ \A k, l \in 1..Len(requests) :
        k < l => requests[k].start < requests[l].start

\* C21: the run ends and the number of its requests is bounded
C21_RunTerminates == []RequestsBounded /\ <>RunEnded

\* a run in which a reply failed has returned after a request for each of
\* three batches or more
C21_Witness ==
  /\ pc = "returned"
  /\ invalidSeen
  /\ Len(requests) >= 3
  /\ Len(requests) = Ceil(Len(entrySubs), TRANSLATION_BATCH_LENGTH)

====
